---- MODULE Spec2Model ----
(***************************************************************************)
(* A model of the boto3 agent mixin of the SageMaker inference plugin:     *)
(* sorted_dict_str, update_dict_fn and Boto3AgentMixin._call               *)
(* (plugins/flytekit-aws-sagemaker/.../boto3_mixin.py).                    *)
(*                                                                         *)
(* Python strings are sequences of one-character strings.  Python values   *)
(* are tagged records [t, v]; a dict is a reference (an address) into the  *)
(* heap, whose cell holds the dict's items in insertion order, so that     *)
(* in-place mutation and aliasing are visible.                             *)
(***************************************************************************)
EXTENDS Integers, Sequences, FiniteSets, TLC

VARIABLES
    heap,        \* address -> items of the dict object living there
    pc,          \* position of the running operation
    inp,         \* arguments of the function under evaluation / of _call
    out,         \* what the function returned or raised
    self_region, \* Boto3AgentMixin._region
    final_region,\* _call: final_region
    args,        \* _call: address of the args dict (0: not built yet)
    args0,       \* the contents reachable from args right after args was built
    images,      \* _call: address of the rewritten images dict (0: none)
    updated_config, \* _call: updated_config
    first_pass,  \* contents of updated_config after the first substitution pass
    hash,        \* _call: hash
    n_subst,     \* number of update_dict_fn passes _call has run
    n_hash,      \* number of hashes _call has computed
    n_client,    \* number of clients _call has created
    n_remote,    \* number of times _call has invoked the remote method
    remote       \* the remote operation: idle, pending, or how it ended

vars == <<heap, pc, inp, out, self_region, final_region, args, args0, images,
          updated_config, first_pass, hash, n_subst, n_hash, n_client, n_remote,
          remote>>

-----------------------------------------------------------------------------
(* Python str primitives *)

\* The characters in use, in code-point order (str comparison is by code point).
Chars == <<" ", "'", ",", "-", ".", "/",
           "0", "1", "2", "3", "4", "5", "6", "7", "8", "9", ":",
           "A", "B", "C", "D", "E", "F", "G", "H", "I", "J", "K", "L", "M",
           "N", "O", "P", "Q", "R", "S", "T", "U", "V", "W", "X", "Y", "Z",
           "[", "]", "_",
           "a", "b", "c", "d", "e", "f", "g", "h", "i", "j", "k", "l", "m",
           "n", "o", "p", "q", "r", "s", "t", "u", "v", "w", "x", "y", "z",
           "{", "}">>

Ord(c) == CHOOSE i \in 1..Len(Chars) : Chars[i] = c

Min(a, b) == IF a <= b THEN a ELSE b

Max(a, b) == IF a >= b THEN a ELSE b

\* a < b on str
StrLess(a, b) ==
    \E i \in 1..Len(b) :
        /\ \A j \in 1..(i - 1) : j <= Len(a) /\ a[j] = b[j]
        /\ (i > Len(a) \/ Ord(a[i]) < Ord(b[i]))

StartsAt(s, sub, i) ==
    /\ i + Len(sub) - 1 <= Len(s)
    /\ SubSeq(s, i, i + Len(sub) - 1) = sub

\* s.find(sub, from), 1-based; 0 when absent
Find(s, sub, from) ==
    LET C == {i \in from..Len(s) : StartsAt(s, sub, i)}
    IN  IF C = {} THEN 0 ELSE CHOOSE i \in C : \A j \in C : i <= j

\* sub in s
Contains(s, sub) == Len(sub) = 0 \/ Find(s, sub, 1) # 0

\* s.startswith(p)
StartsWith(s, p) == StartsAt(s, p, 1)

RECURSIVE Replace(_, _, _)
\* s.replace(old, new): every non-overlapping occurrence, left to right
Replace(s, old, new) ==
    LET i == Find(s, old, 1)
    IN  IF i = 0 THEN s
        ELSE SubSeq(s, 1, i - 1) \o new
                 \o Replace(SubSeq(s, i + Len(old), Len(s)), old, new)

RECURSIVE Split(_, _)
\* s.split(sep)
Split(s, sep) ==
    LET i == Find(s, sep, 1)
    IN  IF i = 0 THEN <<s>>
        ELSE <<SubSeq(s, 1, i - 1)>> \o Split(SubSeq(s, i + Len(sep), Len(s)), sep)

\* s[:n], n possibly negative
SliceTo(s, n) ==
    IF n >= 0 THEN SubSeq(s, 1, Min(n, Len(s)))
    ELSE SubSeq(s, 1, Max(Len(s) + n, 0))

RECURSIVE FindAll(_)
\* re.findall(r"\{([^}]+)\}", s): the groups of the successive matches
FindAll(s) ==
    LET i == Find(s, <<"{">>, 1)
    IN  IF i = 0 THEN <<>>
        ELSE LET j == Find(s, <<"}">>, i + 1)
             IN  IF j = 0 THEN <<>>
                 ELSE IF j = i + 1 THEN FindAll(SubSeq(s, i + 1, Len(s)))
                 ELSE <<SubSeq(s, i + 1, j - 1)>> \o FindAll(SubSeq(s, j + 1, Len(s)))

RECURSIVE Join(_, _)
\* sep.join(parts)
Join(parts, sep) ==
    IF parts = <<>> THEN <<>>
    ELSE IF Len(parts) = 1 THEN parts[1]
    ELSE parts[1] \o sep \o Join(Tail(parts), sep)

Digits == <<"0", "1", "2", "3", "4", "5", "6", "7", "8", "9">>

RECURSIVE IntStr(_)
\* str(n) for n >= 0
IntStr(n) == IF n < 10 THEN <<Digits[n + 1]>> ELSE IntStr(n \div 10) \o <<Digits[(n % 10) + 1]>>

-----------------------------------------------------------------------------
(* Python values *)

StrV(s) == [t |-> "str", v |-> s]

IntV(n) == [t |-> "int", v |-> n]

NoneV == [t |-> "none", v |-> 0]

ListV(xs) == [t |-> "list", v |-> xs]

DictV(a) == [t |-> "dict", v |-> a]

Item(k, x) == [k |-> k, v |-> x]

\* bool(x)
Truthy(x, h) ==
    CASE x.t = "none" -> FALSE
      [] x.t = "str"  -> x.v # <<>>
      [] x.t = "int"  -> x.v # 0
      [] x.t = "list" -> x.v # <<>>
      [] x.t = "dict" -> h[x.v] # <<>>

RECURSIVE PyRepr(_, _)
\* repr(x)
PyRepr(x, h) ==
    CASE x.t = "str"  -> <<"'">> \o x.v \o <<"'">>
      [] x.t = "int"  -> IntStr(x.v)
      [] x.t = "none" -> <<"N", "o", "n", "e">>
      [] x.t = "list" ->
            <<"[">> \o Join([i \in 1..Len(x.v) |-> PyRepr(x.v[i], h)], <<",", " ">>) \o <<"]">>
      [] x.t = "dict" ->
            <<"{">> \o Join([i \in 1..Len(h[x.v]) |->
                               PyRepr(StrV(h[x.v][i].k), h) \o <<":", " ">>
                                   \o PyRepr(h[x.v][i].v, h)], <<",", " ">>) \o <<"}">>

\* str(x)
PyStr(x, h) == IF x.t = "str" THEN x.v ELSE PyRepr(x, h)

\* the dict at address a has key k
HasKey(a, k, h) == \E i \in 1..Len(h[a]) : h[a][i].k = k

\* d[k] for the dict at address a
Lookup(a, k, h) == h[a][CHOOSE i \in 1..Len(h[a]) : h[a][i].k = k].v
-----------------------------------------------------------------------------
(* sorted_dict_str *)

RECURSIVE SortedByKey(_)
\* sorted(xs, key=...) over entries [key, val]: ascending by key, stable
SortedByKey(xs) ==
    IF xs = <<>> THEN <<>>
    ELSE LET r == SortedByKey(SubSeq(xs, 1, Len(xs) - 1))
             e == xs[Len(xs)]
             p == Cardinality({i \in 1..Len(r) : ~StrLess(e.key, r[i].key)})
         IN  SubSeq(r, 1, p) \o <<e>> \o SubSeq(r, p + 1, Len(r))

\* sorted(d.items()): the items in ascending key order (keys are distinct str)
SortedItems(a, h) ==
    SortedByKey([i \in 1..Len(h[a]) |-> [key |-> h[a][i].k, val |-> h[a][i].v]])

\* sorted(d, key=lambda x: str(x))
SortedElems(xs, h) ==
    SortedByKey([i \in 1..Len(xs) |-> [key |-> PyStr(xs[i], h), val |-> xs[i]]])

RECURSIVE sorted_dict_str(_, _)
sorted_dict_str(d, h) ==
    CASE d.t = "dict" ->
            LET its == SortedItems(d.v, h)
            IN  <<"{">> \o Join([i \in 1..Len(its) |->
                                   sorted_dict_str(StrV(its[i].key), h) \o <<":", " ">>
                                       \o sorted_dict_str(its[i].val, h)], <<",", " ">>)
                        \o <<"}">>
      [] d.t = "list" ->
            LET es == SortedElems(d.v, h)
            IN  <<"[">> \o Join([i \in 1..Len(es) |-> sorted_dict_str(es[i].val, h)],
                                <<",", " ">>)
                        \o <<"]">>
      [] OTHER -> PyStr(d, h)

-----------------------------------------------------------------------------
(* update_dict_fn *)

IDEMPOTENCE_TOKEN ==
    <<"i", "d", "e", "m", "p", "o", "t", "e", "n", "c", "e", "_", "t", "o", "k", "e", "n">>

\* f"{{{match}}}"
Placeholder(match) == <<"{">> \o match \o <<"}">>

\* the length a string holding the token is cut to
NameLimit == 63

NoErr == [kind |-> "", key |-> <<>>, in |-> <<>>]

\* a call that returned val, leaving the heap h
Ok(val, h) == [st |-> "ok", val |-> val, err |-> NoErr, h |-> h]

\* a call that raised, leaving the heap h
Raise(kind, key, in, h) ==
    [st |-> "err", val |-> NoneV, err |-> [kind |-> kind, key |-> key, in |-> in], h |-> h]

\* the address of a dict local to one call
ScratchAddr == 0

\* update_dict.copy(): a new dict (at ScratchAddr) holding the same items
DictCopy(ud, h) ==
    [a \in (DOMAIN h) \cup {ScratchAddr} |-> IF a = ScratchAddr THEN h[ud] ELSE h[a]]

\* update_dict_copy[key] succeeds: only a dict holding the key can be indexed by a str
CanIndex(cur, key, h) == cur.t = "dict" /\ HasKey(cur.v, key, h)

\* the error names the whole lookup table instead of the sub-structure reached
MissingKeyError_WholeTable(cur, key, h) ==
    Raise("ValueError", key, PyStr(DictV(ScratchAddr), h), h)

\* raise ValueError(f"Could not find the key {key} in {update_dict_copy}.")
MissingKeyError(cur, key, h) == Raise("ValueError", key, PyStr(cur, h), h)

RECURSIVE Traverse(_, _, _)
\* for key in keys: update_dict_copy = update_dict_copy[key], else ValueError
Traverse(cur, keys, h) ==
    IF keys = <<>> THEN Ok(cur, h)
    ELSE IF CanIndex(cur, Head(keys), h)
         THEN Traverse(Lookup(cur.v, Head(keys), h), Tail(keys), h)
         ELSE MissingKeyError(cur, Head(keys), h)

\* the whole-string case is never taken: every placeholder is spliced
WholePlaceholder_Never(match, s) == FALSE

\* f"{{{match}}}" == original_dict
WholePlaceholder(match, s) == Placeholder(match) = s

\* original_dict.replace(f"{{{match}}}", update_dict_copy): str.replace takes a str
Splice(s, match, val, h) ==
    IF val.t = "str" THEN Ok(StrV(Replace(s, Placeholder(match), val.v)), h)
    ELSE Raise("TypeError", <<>>, <<>>, h)

\* idempotence_token[: (63 - len(original_dict.replace("{idempotence_token}", "")))]
TruncatedToken(s, tok) ==
    SliceTo(tok, NameLimit - Len(Replace(s, Placeholder(IDEMPOTENCE_TOKEN), <<>>)))

\* the branch for match == "idempotence_token" with a token given
InjectToken(s, match, tok) ==
    LET temp_dict == Replace(s, Placeholder(match), tok)
    IN  IF Len(temp_dict) > NameLimit
        THEN Replace(s, Placeholder(match), TruncatedToken(s, tok))
        ELSE temp_dict

\* match == "idempotence_token" and idempotence_token
TokenBranch(match, tok, h) == match = IDEMPOTENCE_TOKEN /\ Truthy(tok, h)

RECURSIVE SubstMatches(_, _, _, _, _)
\* for match in matches: ...; return original_dict
SubstMatches(s, matches, ud, tok, h) ==
    IF matches = <<>> THEN Ok(StrV(s), h)
    ELSE LET match == Head(matches)
         IN  IF Contains(match, <<".">>)
             THEN LET r == Traverse(DictV(ScratchAddr), Split(match, <<".">>),
                                    DictCopy(ud, h))
                  IN  IF r.st = "err" THEN [r EXCEPT !.h = h]
                      ELSE IF WholePlaceholder(match, s) THEN Ok(r.val, h)
                      ELSE LET sp == Splice(s, match, r.val, h)
                           IN  IF sp.st = "err" THEN sp
                               ELSE SubstMatches(sp.val.v, Tail(matches), ud, tok, h)
             ELSE IF TokenBranch(match, tok, h)
                  THEN SubstMatches(InjectToken(s, match, tok.v), Tail(matches), ud, tok, h)
                  ELSE SubstMatches(s, Tail(matches), ud, tok, h)

\* the str case of update_dict_fn
UpdateStr(s, ud, tok, h) ==
    IF Contains(s, <<"{">>) /\ Contains(s, <<"}">>)
    THEN SubstMatches(s, FindAll(s), ud, tok, h)
    ELSE Ok(StrV(s), h)

RECURSIVE update_dict_fn(_, _, _, _), UpdateList(_, _, _, _, _), UpdateItems(_, _, _, _, _)
\* [update_dict_fn(item, update_dict, idempotence_token) for item in original_dict]
UpdateList(xs, acc, ud, tok, h) ==
    IF xs = <<>> THEN Ok(ListV(acc), h)
    ELSE LET r == update_dict_fn(Head(xs), ud, tok, h)
         IN  IF r.st = "err" THEN r
             ELSE UpdateList(Tail(xs), Append(acc, r.val), ud, tok, r.h)

\* for key, value in original_dict.items(): original_dict[key] = update_dict_fn(value, ...)
UpdateItems(a, i, ud, tok, h) ==
    IF i > Len(h[a]) THEN Ok(DictV(a), h)
    ELSE LET r == update_dict_fn(h[a][i].v, ud, tok, h)
         IN  IF r.st = "err" THEN r
             ELSE UpdateItems(a, i + 1, ud, tok, [r.h EXCEPT ![a][i].v = r.val])

update_dict_fn(original_dict, ud, tok, h) ==
    CASE original_dict.t = "none" -> Ok(NoneV, h)
      [] original_dict.t = "str"  -> UpdateStr(original_dict.v, ud, tok, h)
      [] original_dict.t = "list" -> UpdateList(original_dict.v, <<>>, ud, tok, h)
      [] original_dict.t = "dict" -> UpdateItems(original_dict.v, 1, ud, tok, h)
      [] OTHER -> Ok(original_dict, h)
-----------------------------------------------------------------------------
(* State shared by the specifications *)

NoOut == [st |-> "none", val |-> NoneV, err |-> NoErr]

\* what a call left in out
Outcome(r) == [st |-> r.st, val |-> r.val, err |-> r.err]

RemoteIdle == [st |-> "idle", e |-> ""]

\* no _call is in progress
CallIdle ==
    /\ self_region = NoneV
    /\ final_region = NoneV
    /\ args = 0
    /\ args0 = <<>>
    /\ images = 0
    /\ updated_config = NoneV
    /\ first_pass = <<>>
    /\ hash = <<>>
    /\ n_subst = 0
    /\ n_hash = 0
    /\ n_client = 0
    /\ n_remote = 0
    /\ remote = RemoteIdle

callVars == <<self_region, final_region, args, args0, images, updated_config,
              first_pass, hash, n_subst, n_hash, n_client, n_remote,
          remote>>

-----------------------------------------------------------------------------
(* update_dict_fn applied to templates: the arguments *)

\* the longest run of plain text put in front of a template
MaxPad == 66

\* the most occurrences of {idempotence_token} in one template
MaxOcc == 2

\* the longest idempotence token
MaxTok == 20

KeyA == <<"a">>
KeyB == <<"b">>
KeyC == <<"c">>
KeyD == <<"d">>
KeyK == <<"k">>
KeyX == <<"x">>
KeyMissing == <<"m", "i", "s", "s", "i", "n", "g">>
KeyNope == <<"n", "o", "p", "e">>
KeyEndpoint ==
    <<"e", "n", "d", "p", "o", "i", "n", "t", "_", "c", "o", "n", "f", "i", "g", "_",
      "n", "a", "m", "e">>
MyEndpointConfig ==
    <<"m", "y", "-", "e", "n", "d", "p", "o", "i", "n", "t", "-", "c", "o", "n", "f",
      "i", "g">>
EndpointConfigName ==
    <<"E", "n", "d", "p", "o", "i", "n", "t", "C", "o", "n", "f", "i", "g", "N", "a",
      "m", "e">>

\* addresses of the dicts of the lookup table and of the config
LookupRoot == 1
LookupA == 2
LookupC == 3
LookupV == 4
ConfigAddr == 5

\* the values a.b may hold: an integer, a string, a sequence, a nested mapping, None
LeafValues ==
    {IntV(7), StrV(<<"v", "1">>), ListV(<<IntV(1), StrV(<<"s">>)>>), DictV(LookupV), NoneV}

\* the lookup table {"a": {"b": v, "c": {"d": 5}}, "k": "val",
\*                   "endpoint_config_name": "my-endpoint-config"}, v = {"x": "y"} when a dict
FnHeap(v, template) ==
    <<  <<Item(KeyA, DictV(LookupA)), Item(KeyK, StrV(<<"v", "a", "l">>)),
          Item(KeyEndpoint, StrV(MyEndpointConfig))>>,
        <<Item(KeyB, v), Item(KeyC, DictV(LookupC))>>,
        <<Item(KeyD, IntV(5))>>,
        <<Item(KeyX, StrV(<<"y">>))>>,
        <<Item(EndpointConfigName, StrV(template))>>  >>

\* dotted paths: resolvable ones, and ones with a key absent at each depth
DottedPaths ==
    { <<KeyA, KeyB>>, <<KeyA, KeyC, KeyD>>, <<KeyA, KeyB, KeyX>>,
      <<KeyMissing, KeyB>>, <<KeyA, KeyMissing>>, <<KeyA, KeyNope, KeyD>>,
      <<KeyA, KeyC, KeyMissing>> }

Dotted(keys) == Placeholder(Join(keys, <<".">>))

TokenPH == Placeholder(IDEMPOTENCE_TOKEN)

RECURSIVE Repeat(_, _)
Repeat(s, n) == IF n = 0 THEN <<>> ELSE s \o Repeat(s, n - 1)

HexChars == <<"0", "1", "2", "3", "4", "5", "6", "7", "8", "9", "a", "b", "c", "d", "e", "f">>

\* a token of n hexadecimal digits
Token(n) == StrV([i \in 1..n |-> HexChars[((i - 1) % 16) + 1]])

Tokens == {NoneV, Token(0), Token(1), Token(16), Token(MaxTok)}

Prefixes == {<<>>, <<"p", "r", "e", "-">>}

Suffixes == {<<>>, <<"-", "p", "o", "s", "t">>}

\* the placeholder part of a template
Placeholders ==
    {Dotted(keys) : keys \in DottedPaths}
        \cup {Placeholder(KeyK), Placeholder(KeyEndpoint), TokenPH,
              Dotted(<<KeyA, KeyB>>) \o Dotted(<<KeyA, KeyC, KeyMissing>>),
              <<"{">> \o Dotted(<<KeyA, KeyB>>),
              Dotted(<<KeyA, KeyB>>) \o TokenPH}

\* the placeholder part of a template about the token
TokenPlaceholders ==
    {Repeat(TokenPH, n) : n \in 1..MaxOcc}
        \cup {<<"{">> \o TokenPH, TokenPH \o Dotted(<<KeyA, KeyB>>),
              Placeholder(KeyK) \o TokenPH}

Wraps == {"str", "list", "dict"}

\* original_dict: the template itself, [template] or {"EndpointConfigName": template}
Wrapped(wrap, template) ==
    CASE wrap = "str"  -> StrV(template)
      [] wrap = "list" -> ListV(<<StrV(template)>>)
      [] wrap = "dict" -> DictV(ConfigAddr)

FnInput(pad, pre, ph, post, wrap, v, tok) ==
    [pad |-> pad, pre |-> pre, ph |-> ph, post |-> post, wrap |-> wrap, v |-> v,
     template |-> Repeat(<<"x">>, pad) \o pre \o ph \o post,
     original |-> Wrapped(wrap, Repeat(<<"x">>, pad) \o pre \o ph \o post),
     ud |-> LookupRoot, tok |-> tok]

FnInputs ==
    {FnInput(0, pre, ph, post, wrap, v, tok) :
        pre \in Prefixes, ph \in Placeholders, post \in Suffixes, wrap \in Wraps,
        v \in LeafValues, tok \in {NoneV, Token(16)}}
    \cup
    {FnInput(pad, <<>>, ph, post, "str", StrV(<<"v", "1">>), tok) :
        pad \in 0..MaxPad, ph \in TokenPlaceholders, post \in Suffixes, tok \in Tokens}

FnInit ==
    /\ inp \in FnInputs
    /\ heap = FnHeap(inp.v, inp.template)
    /\ pc = "fn_ready"
    /\ out = NoOut
    /\ CallIdle

\* update_dict_fn(original_dict, update_dict, idempotence_token)
CallUpdateDictFn ==
    /\ pc = "fn_ready"
    /\ LET r == update_dict_fn(inp.original, inp.ud, inp.tok, heap)
       IN  /\ out' = Outcome(r)
           /\ heap' = r.h
    /\ pc' = "fn_done"
    /\ UNCHANGED <<inp, callVars>>

FnNext == CallUpdateDictFn

SpecFn == FnInit /\ [][FnNext]_vars
-----------------------------------------------------------------------------
(* Properties of update_dict_fn on templates *)

\* the heap update_dict_fn was called on
FnHeap0 == FnHeap(inp.v, inp.template)

\* what update_dict_fn put in the place of the template
FnResult ==
    CASE inp.wrap = "str"  -> out.val
      [] inp.wrap = "list" -> out.val.v[1]
      [] inp.wrap = "dict" -> heap[ConfigAddr][1].v

RECURSIVE Present(_, _, _)
\* every key of the path is there: keys[1] in the dict at a, keys[2] in what it holds, ...
Present(a, keys, h) ==
    /\ HasKey(a, keys[1], h)
    /\ \/ Len(keys) = 1
       \/ /\ Lookup(a, keys[1], h).t = "dict"
          /\ Present(Lookup(a, keys[1], h).v, Tail(keys), h)

RECURSIVE ValueAt(_, _, _)
\* the value a present path leads to
ValueAt(a, keys, h) ==
    IF Len(keys) = 1 THEN Lookup(a, keys[1], h)
    ELSE ValueAt(Lookup(a, keys[1], h).v, Tail(keys), h)

\* the value reached after the first n keys of the path
Reached(keys, n, h) ==
    IF n = 0 THEN DictV(LookupRoot) ELSE ValueAt(LookupRoot, SubSeq(keys, 1, n), h)

\* keys[i] is the first key of the path that cannot be followed
FirstAbsent(keys, i, h) ==
    /\ i = 1 \/ Present(LookupRoot, SubSeq(keys, 1, i - 1), h)
    /\ ~ CanIndex(Reached(keys, i - 1, h), keys[i], h)

\* the template is plain text around one placeholder
OnePlaceholder(ph) ==
    /\ inp.pad = 0
    /\ inp.ph = ph

\* C1: a value that is exactly one undotted placeholder "{k}", k a key of the lookup
\* table, is replaced by lookup[k]; in particular {"EndpointConfigName":
\* "{endpoint_config_name}"} becomes {"EndpointConfigName": "my-endpoint-config"}.
C1_UndottedReplaced ==
    \A k \in {KeyK, KeyEndpoint} :
        (pc = "fn_done" /\ inp.wrap = "dict" /\ inp.template = Placeholder(k))
            => /\ out.st = "ok"
               /\ out.val = DictV(ConfigAddr)
               /\ heap[ConfigAddr] = <<Item(EndpointConfigName, Lookup(LookupRoot, k, FnHeap0))>>

\* C2: a template that is exactly one dotted placeholder whose path resolves to v
\* yields v itself, with its type (the same dict object, the same integer, ...).
C2_TypedSubstitution ==
    \A keys \in DottedPaths :
        (pc = "fn_done" /\ inp.template = Dotted(keys) /\ Present(LookupRoot, keys, FnHeap0))
            => /\ out.st = "ok"
               /\ FnResult = ValueAt(LookupRoot, keys, FnHeap0)

C2_Witness ==
    /\ pc = "fn_done"
    /\ inp.template = Dotted(<<KeyA, KeyB>>)
    /\ inp.v = DictV(LookupV)
    /\ out.st = "ok"
    /\ FnResult = DictV(LookupV)

\* C3: a resolvable placeholder embedded in a longer string yields prefix + str(value)
\* + suffix, whatever the type of the value, and no error.
C3_EmbeddedSpliced ==
    \A keys \in DottedPaths :
        (/\ pc = "fn_done"
         /\ OnePlaceholder(Dotted(keys))
         /\ inp.pre \o inp.post # <<>>
         /\ Present(LookupRoot, keys, FnHeap0))
            => /\ out.st = "ok"
               /\ FnResult = StrV(inp.pre \o PyStr(ValueAt(LookupRoot, keys, FnHeap0), FnHeap0)
                                      \o inp.post)

RECURSIVE Occurrences(_, _)
\* s.count(sub)
Occurrences(s, sub) ==
    LET i == Find(s, sub, 1)
    IN  IF i = 0 THEN 0 ELSE 1 + Occurrences(SubSeq(s, i + Len(sub), Len(s)), sub)

\* the template holds the token placeholder and the full token would overflow
TokenOverflows ==
    /\ inp.wrap = "str"
    /\ Contains(inp.template, TokenPH)
    /\ inp.tok.t = "str" /\ inp.tok.v # <<>>
    /\ Len(Replace(inp.template, TokenPH, inp.tok.v)) > NameLimit


\* the template with the token placeholder taken out
Surrounding == Replace(inp.template, TokenPH, <<>>)

\* the text around the token placeholders holds no brace
PlainSurrounding == ~ Contains(Surrounding, <<"{">>) /\ ~ Contains(Surrounding, <<"}">>)

\* C4: whenever the full token would overflow 63 characters, the result is
\* exactly 63 characters long, for every length of the (plain) surrounding text and
\* every number of occurrences of the placeholder.
C4_AlwaysExactly63 ==
    (pc = "fn_done" /\ TokenOverflows /\ PlainSurrounding)
        => /\ out.st = "ok"
           /\ out.val.t = "str"
           /\ Len(out.val.v) = NameLimit

\* C6: when a key of a dotted path is absent (at the first, an intermediate or the last
\* depth), update_dict_fn raises an error naming the first such key and the
\* sub-structure reached when it was found missing.
C6_MissingKeyNamed ==
    \A keys \in DottedPaths : \A i \in 1..Len(keys) :
        (pc = "fn_done" /\ OnePlaceholder(Dotted(keys)) /\ FirstAbsent(keys, i, FnHeap0))
            => /\ out.st = "err"
               /\ out.err = [kind |-> "ValueError", key |-> keys[i],
                             in |-> PyStr(Reached(keys, i - 1, FnHeap0), FnHeap0)]

C6_Witness ==
    /\ pc = "fn_done"
    /\ OnePlaceholder(Dotted(<<KeyA, KeyNope, KeyD>>))
    /\ inp.pre # <<>>
    /\ out.st = "err"
    /\ out.err.key = KeyNope
-----------------------------------------------------------------------------
(* The idempotence hash *)

\* the number of distinct digests of the model (xxh64 has 2^64)
HashSpace == 65536

RECURSIVE Checksum(_, _, _)
\* the sum of the code points of s[lo..hi], each weighted by its position
Checksum(s, lo, hi) ==
    IF lo > hi THEN 0
    ELSE IF lo = hi THEN (Ord(s[lo]) * lo) % HashSpace
    ELSE LET mid == (lo + hi) \div 2
         IN  (Checksum(s, lo, mid) + Checksum(s, mid + 1, hi)) % HashSpace

RECURSIVE Hex(_, _)
\* n as `width` lowercase hexadecimal digits
Hex(n, width) ==
    IF width = 0 THEN <<>> ELSE Hex(n \div 16, width - 1) \o <<HexChars[(n % 16) + 1]>>

\* xxhash.xxh64(s).hexdigest(): sixteen hexadecimal digits determined by s
Hexdigest(s) == Hex(Checksum(s, 1, Len(s)), 16)

-----------------------------------------------------------------------------
(* sorted_dict_str applied to structures that differ only in order *)

\* the longest sequence sorted
MaxList == 2

\* {"a": 2, "b": 1} | {"b": 1, "a": 2} | {"a": 3} | {"k": [..]} in two orders
SortHeap ==
    <<  <<Item(KeyA, IntV(2)), Item(KeyB, IntV(1))>>,
        <<Item(KeyB, IntV(1)), Item(KeyA, IntV(2))>>,
        <<Item(KeyA, IntV(3))>>,
        <<Item(KeyK, ListV(<<IntV(2), IntV(1)>>)), Item(KeyD, StrV(<<"v", "1">>))>>,
        <<Item(KeyD, StrV(<<"v", "1">>)), Item(KeyK, ListV(<<IntV(1), IntV(2)>>))>>  >>

SortElements ==
    {IntV(1), IntV(2), IntV(10), StrV(<<"a">>), NoneV, DictV(1), DictV(2), DictV(3),
     DictV(4), DictV(5),
     ListV(<<IntV(1), IntV(2)>>), ListV(<<IntV(2), IntV(1)>>), ListV(<<IntV(1), IntV(3)>>)}

RECURSIVE SameUpToOrder(_, _, _)
\* x and y differ at most in the insertion order of keys and the order of elements
SameUpToOrder(x, y, h) ==
    /\ x.t = y.t
    /\ CASE x.t = "dict" ->
               /\ {h[x.v][i].k : i \in 1..Len(h[x.v])} = {h[y.v][i].k : i \in 1..Len(h[y.v])}
               /\ \A i \in 1..Len(h[x.v]) :
                      SameUpToOrder(h[x.v][i].v, Lookup(y.v, h[x.v][i].k, h), h)
         [] x.t = "list" ->
               /\ Len(x.v) = Len(y.v)
               /\ \E p \in Permutations(1..Len(x.v)) :
                      \A i \in 1..Len(x.v) : SameUpToOrder(x.v[i], y.v[p[i]], h)
         [] OTHER -> x = y

\* the sequences of at most MaxList elements
SortLists == UNION {[1..n -> SortElements] : n \in 0..MaxList}

\* the elements that differ from e at most in order
Variants(e) == {f \in SortElements : SameUpToOrder(e, f, SortHeap)}

RECURSIVE VariantSeqs(_)
\* xs with each element replaced by one of its variants
VariantSeqs(xs) ==
    IF xs = <<>> THEN {<<>>}
    ELSE {<<f>> \o r : f \in Variants(Head(xs)), r \in VariantSeqs(Tail(xs))}

\* the rearrangements of xs
Permuted(xs) == {[i \in 1..Len(xs) |-> xs[p[i]]] : p \in Permutations(1..Len(xs))}

\* pairs of sequences, and pairs of mappings, that differ at most in order
SortInputs(lists) ==
    UNION {{[x |-> ListV(xs), y |-> ListV(ys)] :
                ys \in UNION {VariantSeqs(zs) : zs \in Permuted(xs)}} : xs \in lists}
    \cup
    {[x |-> d, y |-> e] :
        <<d, e>> \in {q \in SortElements \X SortElements :
                        q[1].t = "dict" /\ SameUpToOrder(q[1], q[2], SortHeap)}}

SortInit ==
    /\ inp \in SortInputs(SortLists)
    /\ heap = SortHeap
    /\ pc = "sort_ready"
    /\ out = NoOut
    /\ CallIdle

\* sorted_dict_str(x) and sorted_dict_str(y), and the hashes _call derives from them
CallSortedDictStr ==
    /\ pc = "sort_ready"
    /\ out' = [x |-> sorted_dict_str(inp.x, heap), y |-> sorted_dict_str(inp.y, heap),
               hx |-> Hexdigest(sorted_dict_str(inp.x, heap)),
               hy |-> Hexdigest(sorted_dict_str(inp.y, heap))]
    /\ pc' = "sort_done"
    /\ UNCHANGED <<heap, inp, callVars>>

SortNext == CallSortedDictStr

SpecSort == SortInit /\ [][SortNext]_vars

\* C5: two structures that differ only in the insertion order of keys and the order of
\* elements, at any depth, have the same canonical string and so the same hash.
C5_OrderInvariant ==
    (pc = "sort_done" /\ SameUpToOrder(inp.x, inp.y, heap))
        => /\ out.x = out.y
           /\ out.hx = out.hy
-----------------------------------------------------------------------------
(* Boto3AgentMixin._call: region and image rewriting *)

account_id_map ==
    <<
        <<<<"u", "s", "-", "e", "a", "s", "t", "-", "1">>, <<"7", "8", "5", "5", "7", "3",
              "3", "6", "8", "7", "8", "5">>>>,
        <<<<"u", "s", "-", "e", "a", "s", "t", "-", "2">>, <<"0", "0", "7", "4", "3", "9",
              "3", "6", "8", "1", "3", "7">>>>,
        <<<<"u", "s", "-", "w", "e", "s", "t", "-", "1">>, <<"7", "1", "0", "6", "9", "1",
              "9", "0", "0", "5", "2", "6">>>>,
        <<<<"u", "s", "-", "w", "e", "s", "t", "-", "2">>, <<"3", "0", "1", "2", "1", "7",
              "8", "9", "5", "0", "0", "9">>>>,
        <<<<"e", "u", "-", "w", "e", "s", "t", "-", "1">>, <<"8", "0", "2", "8", "3", "4",
              "0", "8", "0", "5", "0", "1">>>>,
        <<<<"e", "u", "-", "w", "e", "s", "t", "-", "2">>, <<"2", "0", "5", "4", "9", "3",
              "8", "9", "9", "7", "0", "9">>>>,
        <<<<"e", "u", "-", "w", "e", "s", "t", "-", "3">>, <<"2", "5", "4", "0", "8", "0",
              "0", "9", "7", "0", "7", "2">>>>,
        <<<<"e", "u", "-", "n", "o", "r", "t", "h", "-", "1">>, <<"6", "0", "1", "3", "2",
              "4", "7", "5", "1", "6", "3", "6">>>>,
        <<<<"e", "u", "-", "s", "o", "u", "t", "h", "-", "1">>, <<"9", "6", "6", "4", "5",
              "8", "1", "8", "1", "5", "3", "4">>>>,
        <<<<"e", "u", "-", "c", "e", "n", "t", "r", "a", "l", "-", "1">>, <<"7", "4", "6",
              "2", "3", "3", "6", "1", "1", "7", "0", "3">>>>,
        <<<<"a", "p", "-", "e", "a", "s", "t", "-", "1">>, <<"1", "1", "0", "9", "4", "8",
              "5", "9", "7", "9", "5", "2">>>>,
        <<<<"a", "p", "-", "s", "o", "u", "t", "h", "-", "1">>, <<"7", "6", "3", "0", "0",
              "8", "6", "4", "8", "4", "5", "3">>>>,
        <<<<"a", "p", "-", "n", "o", "r", "t", "h", "e", "a", "s", "t", "-", "1">>, <<"9",
              "4", "1", "8", "5", "3", "7", "2", "0", "4", "5", "4">>>>,
        <<<<"a", "p", "-", "n", "o", "r", "t", "h", "e", "a", "s", "t", "-", "2">>, <<"1",
              "5", "1", "5", "3", "4", "1", "7", "8", "2", "7", "6">>>>,
        <<<<"a", "p", "-", "s", "o", "u", "t", "h", "e", "a", "s", "t", "-", "1">>, <<"3",
              "2", "4", "9", "8", "6", "8", "1", "6", "1", "6", "9">>>>,
        <<<<"a", "p", "-", "s", "o", "u", "t", "h", "e", "a", "s", "t", "-", "2">>, <<"3",
              "5", "5", "8", "7", "3", "3", "0", "9", "1", "5", "2">>>>,
        <<<<"c", "n", "-", "n", "o", "r", "t", "h", "w", "e", "s", "t", "-", "1">>, <<"4",
              "7", "4", "8", "2", "2", "9", "1", "9", "8", "6", "3">>>>,
        <<<<"c", "n", "-", "n", "o", "r", "t", "h", "-", "1">>, <<"4", "7", "2", "7", "3",
              "0", "2", "9", "2", "8", "5", "7">>>>,
        <<<<"s", "a", "-", "e", "a", "s", "t", "-", "1">>, <<"7", "5", "6", "3", "0", "6",
              "3", "2", "9", "1", "7", "8">>>>,
        <<<<"c", "a", "-", "c", "e", "n", "t", "r", "a", "l", "-", "1">>, <<"4", "6", "4",
              "4", "3", "8", "8", "9", "6", "0", "2", "0">>>>,
        <<<<"m", "e", "-", "s", "o", "u", "t", "h", "-", "1">>, <<"8", "3", "6", "7", "8",
              "5", "7", "2", "3", "5", "1", "3">>>>,
        <<<<"a", "f", "-", "s", "o", "u", "t", "h", "-", "1">>, <<"7", "7", "4", "6", "4",
              "7", "6", "4", "3", "9", "5", "7">>>>
    >>

\* final_region in account_id_map
KnownRegion(r) == \E i \in 1..Len(account_id_map) : account_id_map[i][1] = r

\* account_id_map[final_region]
AccountId(r) == account_id_map[CHOOSE i \in 1..Len(account_id_map) : account_id_map[i][1] = r][2]

TritonMarker == <<"s", "a", "g", "e", "m", "a", "k", "e", "r", "-", "t", "r", "i", "t", "o",
      "n", "s", "e", "r", "v", "e", "r">>

\* "amazonaws.com.cn" if final_region.startswith("cn-") else "amazonaws.com"
Base(r) ==
    IF StartsWith(r, <<"c", "n", "-">>) THEN <<"a", "m", "a", "z", "o", "n", "a", "w", "s",
          ".", "c", "o", "m", ".", "c", "n">> ELSE <<"a", "m", "a", "z", "o", "n", "a", "w",
                "s", ".", "c", "o", "m">>

\* the keyword arguments of image.format(account_id=..., region=..., base=...)
FormatArgs(r) ==
    << <<<<"a", "c", "c", "o", "u", "n", "t", "_", "i", "d">>, AccountId(r)>>, <<<<"r", "e",
          "g", "i", "o", "n">>, r>>, <<<<"b", "a", "s", "e">>, Base(r)>> >>

HasField(kw, name) == \E i \in 1..Len(kw) : kw[i][1] = name

Field(kw, name) == kw[CHOOSE i \in 1..Len(kw) : kw[i][1] = name][2]

\* the first brace of s at or after position 1 (0: none)
FirstBrace(s) ==
    LET C == {i \in 1..Len(s) : s[i] \in {"{", "}"}}
    IN  IF C = {} THEN 0 ELSE CHOOSE i \in C : \A j \in C : i <= j

RECURSIVE Format(_, _, _)
\* s.format(**kw) for replacement fields that are plain names: {{ and }} are literal
\* braces, an unknown name raises KeyError, {} IndexError, a lone brace ValueError
Format(s, kw, h) ==
    LET i == FirstBrace(s)
    IN  IF i = 0 THEN Ok(StrV(s), h)
        ELSE IF i < Len(s) /\ s[i + 1] = s[i]
        THEN LET r == Format(SubSeq(s, i + 2, Len(s)), kw, h)
             IN  IF r.st = "err" THEN r
                 ELSE Ok(StrV(SubSeq(s, 1, i) \o r.val.v), h)
        ELSE IF s[i] = "}" THEN Raise("ValueError", <<>>, <<>>, h)
        ELSE LET j == Find(s, <<"}">>, i + 1)
             IN  IF j = 0 THEN Raise("ValueError", <<>>, <<>>, h)
                 ELSE IF j = i + 1 THEN Raise("IndexError", <<>>, <<>>, h)
                 ELSE IF ~ HasField(kw, SubSeq(s, i + 1, j - 1))
                 THEN Raise("KeyError", SubSeq(s, i + 1, j - 1), <<>>, h)
                 ELSE LET r == Format(SubSeq(s, j + 1, Len(s)), kw, h)
                      IN  IF r.st = "err" THEN r
                          ELSE Ok(StrV(SubSeq(s, 1, i - 1)
                                           \o Field(kw, SubSeq(s, i + 1, j - 1))
                                           \o r.val.v), h)

\* one value of the images comprehension
RewriteImage(image, r, h) ==
    IF image.t = "str" /\ Contains(image.v, TritonMarker)
    THEN IF KnownRegion(r) THEN Format(image.v, FormatArgs(r), h)
         ELSE Raise("KeyError", r, <<>>, h)
    ELSE Ok(image, h)

RECURSIVE RewriteImages(_, _, _, _)
\* {image_name: (image.format(...) if ... else image) for image_name, image in images.items()}
RewriteImages(items, acc, r, h) ==
    IF items = <<>> THEN Ok(ListV(acc), h)
    ELSE LET x == RewriteImage(Head(items).v, r, h)
         IN  IF x.st = "err" THEN x
             ELSE RewriteImages(Tail(items), Append(acc, Item(Head(items).k, x.val)), r, h)

\* d.get(key)
Get(a, key, h) == IF HasKey(a, key, h) THEN Lookup(a, key, h) ELSE NoneV

\* x or y
PyOr(x, y, h) == IF Truthy(x, h) THEN x ELSE y

\* input_region: args["inputs"].get("region") when inputs is given
InputRegion(inputs, h) ==
    IF Truthy(inputs, h) THEN Get(inputs.v, <<"r", "e", "g", "i", "o", "n">>, h) ELSE NoneV

\* final_region = input_region or region or self._region
FinalRegion(input_region, region, selfregion, h) ==
    PyOr(PyOr(input_region, region, h), selfregion, h)

\* the region check is left out
RegionMissing_Never(r, h) == FALSE

\* if not final_region
RegionMissing(r, h) == ~ Truthy(r, h)

RegionRequired ==
    [kind |-> "ValueError", key |-> <<>>,
     in |-> <<"R", "e", "g", "i", "o", "n", " ", "p", "a", "r", "a", "m", "e", "t", "e", "r",
           " ", "i", "s", " ", "r", "e", "q", "u", "i", "r", "e", "d", ".">>]
-----------------------------------------------------------------------------
(* Boto3AgentMixin._call: the arguments *)

\* addresses: config, the decoded inputs (what literal_map_string_repr returns) and the
\* mapping nested in them, the images argument, args, the rewritten images
CallConfig == 1
CallInputs == 2
CallInputsCfg == 3
CallImagesArg == 4
CallArgs == 5
CallNewImages == 6

KeyInputs == <<"i", "n", "p", "u", "t", "s">>
KeyImages == <<"i", "m", "a", "g", "e", "s">>
KeyRegion == <<"r", "e", "g", "i", "o", "n">>
KeyName == <<"n", "a", "m", "e">>
KeyCfg == <<"c", "f", "g">>
KeyTag == <<"t", "a", "g">>
KeyImg == <<"i", "m", "g">>
KeyNameField == <<"N", "a", "m", "e">>
KeyCfgField == <<"C", "f", "g">>
ValueNm == <<"n", "m">>

UsEast1 == StrV(<<"u", "s", "-", "e", "a", "s", "t", "-", "1">>)
CnNorth1 == StrV(<<"c", "n", "-", "n", "o", "r", "t", "h", "-", "1">>)
Unlisted == StrV(<<"x", "x", "-", "w", "e", "s", "t", "-", "9">>)

\* config["Name"]
NameTemplates ==
    {
      \* "plain"
      <<"p", "l", "a", "i", "n">>,
      \* "n-{idempotence_token}"
      <<"n", "-", "{", "i", "d", "e", "m", "p", "o", "t", "e", "n", "c", "e", "_", "t",
        "o", "k", "e", "n", "}">>,
      \* "my_idempotence_token"
      <<"m", "y", "_", "i", "d", "e", "m", "p", "o", "t", "e", "n", "c", "e", "_", "t",
        "o", "k", "e", "n">>
    }

\* config["Cfg"]
CfgTemplates ==
    {
      \* "lit"
      <<"l", "i", "t">>,
      \* "{inputs.cfg}"
      <<"{", "i", "n", "p", "u", "t", "s", ".", "c", "f", "g", "}">>,
      \* "{inputs.missing}"
      <<"{", "i", "n", "p", "u", "t", "s", ".", "m", "i", "s", "s", "i", "n", "g", "}">>,
      \* "{images.img}"
      <<"{", "i", "m", "a", "g", "e", "s", ".", "i", "m", "g", "}">>,
      \* "{inputs.name}-x"
      <<"{", "i", "n", "p", "u", "t", "s", ".", "n", "a", "m", "e", "}", "-", "x">>
    }

\* inputs["cfg"]["tag"]
TagTemplates ==
    {
      \* "t"
      <<"t">>,
      \* "t-{idempotence_token}"
      <<"t", "-", "{", "i", "d", "e", "m", "p", "o", "t", "e", "n", "c", "e", "_", "t",
        "o", "k", "e", "n", "}">>,
      \* "{inputs.name}"
      <<"{", "i", "n", "p", "u", "t", "s", ".", "n", "a", "m", "e", "}">>
    }

\* inputs: None, or decoded to {["region": r,] "name": "nm", "cfg": {"tag": tag}}
InputsChoices ==
    {[given |-> FALSE, region |-> NoneV, tag |-> <<"t">>]}
        \cup {[given |-> TRUE, region |-> r, tag |-> g] :
                r \in {NoneV, StrV(<<>>), CnNorth1}, g \in TagTemplates}

\* images["img"]
ImageTemplates ==
    {
      \* "{account_id}.dkr.ecr.{region}.{base}/sagemaker-tritonserver"
      <<"{", "a", "c", "c", "o", "u", "n", "t", "_", "i", "d", "}", ".", "d", "k", "r",
        ".", "e", "c", "r", ".", "{", "r", "e", "g", "i", "o", "n", "}", ".", "{", "b",
        "a", "s", "e", "}", "/", "s", "a", "g", "e", "m", "a", "k", "e", "r", "-", "t",
        "r", "i", "t", "o", "n", "s", "e", "r", "v", "e", "r">>,
      \* "my-image"
      <<"m", "y", "-", "i", "m", "a", "g", "e">>,
      \* "{tag}/sagemaker-tritonserver"
      <<"{", "t", "a", "g", "}", "/", "s", "a", "g", "e", "m", "a", "k", "e", "r", "-",
        "t", "r", "i", "t", "o", "n", "s", "e", "r", "v", "e", "r">>
    }

\* images: None, {}, or {"img": image}
ImagesChoices ==
    {[given |-> FALSE, items |-> <<>>], [given |-> TRUE, items |-> <<>>]}
        \cup {[given |-> TRUE, items |-> <<Item(KeyImg, StrV(i))>>] : i \in ImageTemplates}

CallHeap(name, cfg, ins, ims) ==
    <<  <<Item(KeyNameField, StrV(name)), Item(KeyCfgField, StrV(cfg))>>,
        (IF ins.region.t = "none" THEN <<>> ELSE <<Item(KeyRegion, ins.region)>>)
            \o <<Item(KeyName, StrV(ValueNm)), Item(KeyCfg, DictV(CallInputsCfg))>>,
        <<Item(KeyTag, StrV(ins.tag))>>,
        ims.items,
        <<>>,
        <<>>  >>

CallInput(ins, ims, region) ==
    [config |-> DictV(CallConfig),
     images |-> IF ims.given THEN DictV(CallImagesArg) ELSE NoneV,
     inputs |-> IF ins.given THEN DictV(CallInputs) ELSE NoneV,
     input_region |-> ins.region,
     region |-> region]

Init ==
    \E name \in NameTemplates, cfg \in CfgTemplates, ins \in InputsChoices,
       ims \in ImagesChoices, region \in {NoneV, StrV(<<>>), UsEast1, Unlisted},
       sr \in {NoneV, UsEast1} :
        /\ heap = CallHeap(name, cfg, ins, ims)
        /\ inp = CallInput(ins, ims, region)
        /\ self_region = sr
        /\ pc = "call"
        /\ out = NoOut
        /\ final_region = NoneV
        /\ args = 0
        /\ args0 = <<>>
        /\ images = 0
        /\ updated_config = NoneV
        /\ first_pass = <<>>
        /\ hash = <<>>
        /\ n_subst = 0
        /\ n_hash = 0
        /\ n_client = 0
        /\ n_remote = 0
        /\ remote = RemoteIdle
-----------------------------------------------------------------------------
(* Boto3AgentMixin._call: the steps *)

\* what _call raised
Raised(err) == [st |-> "err", val |-> NoneV, err |-> err]

\* return result, hash
Returned(result, hs) == [st |-> "ok", val |-> <<result, hs>>, err |-> NoErr]

\* the wrapping error loses the token
CustomException_NoToken(hs, e) ==
    [kind |-> "CustomException", idempotence_token |-> <<>>, original_exception |-> e]

\* CustomException(f"An error occurred: {e}", hash, e)
CustomException(hs, e) ==
    [kind |-> "CustomException", idempotence_token |-> hs, original_exception |-> e]

\* the test looks for the placeholder, braces included
NeedsToken_Placeholder(s) == Contains(s, TokenPH)

\* "idempotence_token" in str(updated_config)
NeedsToken(s) == Contains(s, IDEMPOTENCE_TOKEN)

\* the errors of botocore.exceptions.ClientError the remote operation may report
ClientErrors == {"ThrottlingException", "ValidationException"}

\* errors that are not ClientError
OtherErrors == {"ParamValidationError", "EndpointConnectionError"}

Results == {"response"}

\* args = {}; if inputs: args["inputs"] = ...; final_region = ...; if not final_region: raise
Begin ==
    /\ pc = "call"
    /\ LET h1 == [heap EXCEPT ![CallArgs] =
                      IF inp.inputs.t # "none" THEN <<Item(KeyInputs, inp.inputs)>> ELSE <<>>]
           fr == FinalRegion(InputRegion(inp.inputs, h1), inp.region, self_region, h1)
       IN  /\ heap' = h1
           /\ args' = CallArgs
           /\ final_region' = fr
           /\ IF RegionMissing(fr, h1)
              THEN pc' = "raised" /\ out' = Raised(RegionRequired)
              ELSE pc' = "images" /\ out' = out
    /\ UNCHANGED <<inp, self_region, args0, images, updated_config, first_pass, hash,
                   n_subst, n_hash, n_client, n_remote, remote>>

\* if images: images = {...}; args["images"] = images
Images ==
    /\ pc = "images"
    /\ IF Truthy(inp.images, heap)
       THEN LET x == RewriteImages(heap[inp.images.v], <<>>, final_region.v, heap)
            IN  IF x.st = "err"
                THEN /\ pc' = "raised"
                     /\ out' = Raised(x.err)
                     /\ UNCHANGED <<heap, images, args0>>
                ELSE /\ heap' = [heap EXCEPT ![CallNewImages] = x.val.v,
                                             ![CallArgs] = Append(@, Item(KeyImages,
                                                                      DictV(CallNewImages)))]
                     /\ images' = CallNewImages
                     /\ args0' = heap'
                     /\ pc' = "subst"
                     /\ out' = out
       ELSE /\ args0' = heap
            /\ pc' = "subst"
            /\ UNCHANGED <<heap, images, out>>
    /\ UNCHANGED <<inp, self_region, final_region, args, updated_config, first_pass, hash,
                   n_subst, n_hash, n_client, n_remote, remote>>

\* updated_config = update_dict_fn(config, args)
FirstPass ==
    /\ pc = "subst"
    /\ LET r == update_dict_fn(inp.config, args, NoneV, heap)
       IN  /\ heap' = r.h
           /\ n_subst' = n_subst + 1
           /\ IF r.st = "err"
              THEN /\ pc' = "raised"
                   /\ out' = Raised(r.err)
                   /\ UNCHANGED <<updated_config, first_pass>>
              ELSE /\ pc' = "hash"
                   /\ updated_config' = r.val
                   /\ first_pass' = [val |-> r.val, h |-> r.h]
                   /\ out' = out
    /\ UNCHANGED <<inp, self_region, final_region, args, args0, images, hash, n_hash,
                   n_client, n_remote, remote>>

\* hash = ""; if "idempotence_token" in str(updated_config): hash = ...; second pass
HashAndInject ==
    /\ pc = "hash"
    /\ IF NeedsToken(PyStr(updated_config, heap))
       THEN LET hs == Hexdigest(sorted_dict_str(updated_config, heap))
                r == update_dict_fn(updated_config, args, StrV(hs), heap)
            IN  /\ hash' = hs
                /\ n_hash' = n_hash + 1
                /\ n_subst' = n_subst + 1
                /\ heap' = r.h
                /\ IF r.st = "err"
                   THEN pc' = "raised" /\ out' = Raised(r.err) /\ UNCHANGED updated_config
                   ELSE pc' = "client" /\ out' = out /\ updated_config' = r.val
       ELSE /\ hash' = <<>>
            /\ pc' = "client"
            /\ UNCHANGED <<n_hash, n_subst, heap, out, updated_config>>
    /\ UNCHANGED <<inp, self_region, final_region, args, args0, images, first_pass,
                   n_client, n_remote, remote>>

\* async with session.client(service_name=self._service, region_name=final_region)
CreateClient ==
    /\ pc = "client"
    /\ n_client' = n_client + 1
    /\ pc' = "invoke"
    /\ UNCHANGED <<heap, inp, out, self_region, final_region, args, args0, images,
                   updated_config, first_pass, hash, n_subst, n_hash, n_remote, remote>>

\* await getattr(client, method)(**updated_config): the call is issued
Invoke ==
    /\ pc = "invoke"
    /\ n_remote' = n_remote + 1
    /\ remote' = [st |-> "pending", e |-> ""]
    /\ pc' = "await"
    /\ UNCHANGED <<heap, inp, out, self_region, final_region, args, args0, images,
                   updated_config, first_pass, hash, n_subst, n_hash, n_client>>

\* the remote operation returns: return result, hash
RemoteReturns ==
    /\ pc = "await"
    /\ \E result \in Results :
           /\ remote' = [st |-> "returned", e |-> result]
           /\ out' = Returned(result, hash)
    /\ pc' = "done"
    /\ UNCHANGED <<heap, inp, self_region, final_region, args, args0, images,
                   updated_config, first_pass, hash, n_subst, n_hash, n_client, n_remote>>

\* except ClientError as e: raise CustomException(f"An error occurred: {e}", hash, e) from e
RemoteClientError ==
    /\ pc = "await"
    /\ \E e \in ClientErrors :
           /\ remote' = [st |-> "client_error", e |-> e]
           /\ out' = Raised(CustomException(hash, e))
    /\ pc' = "raised"
    /\ UNCHANGED <<heap, inp, self_region, final_region, args, args0, images,
                   updated_config, first_pass, hash, n_subst, n_hash, n_client, n_remote>>

\* any other exception of the remote operation propagates as it is
RemoteOtherError ==
    /\ pc = "await"
    /\ \E e \in OtherErrors :
           /\ remote' = [st |-> "other_error", e |-> e]
           /\ out' = Raised([kind |-> e, key |-> <<>>, in |-> <<>>])
    /\ pc' = "raised"
    /\ UNCHANGED <<heap, inp, self_region, final_region, args, args0, images,
                   updated_config, first_pass, hash, n_subst, n_hash, n_client, n_remote>>

Next ==
    \/ Begin
    \/ Images
    \/ FirstPass
    \/ HashAndInject
    \/ CreateClient
    \/ Invoke
    \/ RemoteReturns
    \/ RemoteClientError
    \/ RemoteOtherError

Spec == Init /\ [][Next]_vars
-----------------------------------------------------------------------------
(* Properties of _call *)

\* the string form of the config after the first pass
FirstPassStr == PyStr(first_pass.val, first_pass.h)

\* the hash of the canonical form of the config after the first pass
FirstPassHash == Hexdigest(sorted_dict_str(first_pass.val, first_pass.h))

\* C7 as stated: a completed _call returns "" when no placeholder {idempotence_token}
\* is left after the first pass (no hash, no second pass), and otherwise the hash of
\* the canonical form of the first-pass result.
C7_TokenIffPlaceholder ==
    pc = "done" =>
        IF Contains(FirstPassStr, TokenPH)
        THEN out.val[2] = FirstPassHash /\ n_hash = 1 /\ n_subst = 2
        ELSE out.val[2] = <<>> /\ n_hash = 0 /\ n_subst = 1

\* C7 amended: a completed _call returns "" when the text idempotence_token occurs
\* nowhere in the string form of the first-pass result (no hash, no second pass), and
\* otherwise the hash of the canonical form of the first-pass result.
C7_TokenIffSubstring ==
    pc = "done" =>
        IF Contains(FirstPassStr, IDEMPOTENCE_TOKEN)
        THEN out.val[2] = FirstPassHash /\ n_hash = 1 /\ n_subst = 2
        ELSE out.val[2] = <<>> /\ n_hash = 0 /\ n_subst = 1

C7_Witness ==
    /\ pc = "done"
    /\ Contains(FirstPassStr, IDEMPOTENCE_TOKEN)
    /\ ~ Contains(FirstPassStr, TokenPH)
    /\ out.val[2] = FirstPassHash
    /\ n_subst = 2

\* none of the three sources supplies a non-empty region
NoRegionSupplied ==
    /\ ~ Truthy(inp.input_region, heap)
    /\ ~ Truthy(inp.region, heap)
    /\ ~ Truthy(self_region, heap)

\* C8: when no source supplies a region, _call raises the configuration error before
\* any substitution, client creation or remote call; no remote call is ever made with
\* an unset region.
C8_RegionRequired ==
    /\ (NoRegionSupplied /\ pc # "call")
           => /\ pc = "raised"
              /\ out = Raised(RegionRequired)
              /\ n_subst = 0 /\ n_hash = 0 /\ n_client = 0 /\ n_remote = 0
    /\ (n_client > 0 \/ n_remote > 0) => Truthy(final_region, heap)

C8_Witness ==
    /\ NoRegionSupplied
    /\ inp.inputs.t = "dict"
    /\ inp.images.t = "dict"
    /\ pc = "raised"
    /\ out = Raised(RegionRequired)
    /\ n_remote = 0

\* C9: when the remote operation reports a client-side error, it was invoked exactly
\* once and _call raises one CustomException carrying the token computed for the call
\* ("" if none was computed) and the underlying error; nothing is returned.
C9_ClientErrorWrapped ==
    remote.st = "client_error"
        => /\ pc = "raised"
           /\ n_remote = 1
           /\ out.st = "err"
           /\ out.err.kind = "CustomException"
           /\ out.err.original_exception = remote.e
           /\ out.err.idempotence_token = IF n_hash = 0 THEN <<>> ELSE FirstPassHash

C9_Witness ==
    /\ remote.st = "client_error"
    /\ pc = "raised"
    /\ n_hash = 1
    /\ out.err.idempotence_token = FirstPassHash
    /\ out.err.original_exception = "ThrottlingException"

RECURSIVE Deep(_, _)
\* x with every dict reference replaced by the dict's contents
Deep(x, h) ==
    CASE x.t = "dict" ->
            [t |-> "dict",
             v |-> [i \in 1..Len(h[x.v]) |-> Item(h[x.v][i].k, Deep(h[x.v][i].v, h))]]
      [] x.t = "list" -> [t |-> "list", v |-> [i \in 1..Len(x.v) |-> Deep(x.v[i], h)]]
      [] OTHER -> x

\* C10: substitution never modifies the lookup table: through both passes of _call
\* every value reachable from args stays what it was when args was built.
C10_LookupUnchanged ==
    args0 # <<>> => Deep(DictV(args), heap) = Deep(DictV(args), args0)
====
